---- MODULE Spec2Model ----
(***************************************************************************)
(* Habit completion / streak bookkeeping of the habit tracker backend      *)
(* (backend/services.py, backend/models.py, backend/database.py).          *)
(*                                                                         *)
(* The database is two tables: habits (one row per habit id) and           *)
(* habit_completions (rows (habit_id, date), UNIQUE(habit_id, date)).      *)
(* The rows of habit_completions are kept as a bag, so that two rows for    *)
(* one (habit_id, date) are two rows.                                       *)
(* Dates are stored as text in the format '%Y-%m-%d'; the model keeps the  *)
(* text as the triple <<year, month, day>> of its zero-padded fields and   *)
(* converts to and from calendar days as strftime / strptime do.           *)
(***************************************************************************)
EXTENDS Integers, Sequences, FiniteSets, Bags, TLC

\* Number of calendar days the clock ranges over (days 1..MaxDay; day 1 is
\* 2025-12-30, so the window crosses a month and a year boundary).
MaxDay == 4

\* Habit ids the calls range over (ids 1..MaxId; an id no habit has yet is
\* an unknown id).
MaxId == 2

\* Habit names offered to add_new_habit: two spellings of one name, so that
\* one habit exists at a time.
Names == {"run", "Run"}

\* Habit names of the two-habit specification: a second name besides the two
\* spellings.
NamesTwo == {"run", "Run", "read"}

\* Number of calendar days the clock ranges over in the two-habit
\* specification.
MaxDayTwo == 2

\* Number of calendar days the clock ranges over when requests overlap.
MaxDayConc == 2

\* The requests that can be in progress at once.
Callers == {"a", "b"}

\* Names a rename request can carry: also one with a trailing blank and the
\* empty one.
RenameInputs == NamesTwo \cup {"Run ", ""}

\* Largest number of habits in the data.json a migration reads.
MaxEntries == 2

\* Largest task id handed out.
MaxTaskId == 2

TaskIds == 1..MaxTaskId

\* Task names; names of tasks need not differ.
TaskNames == {"Write Report"}

\* SQL NULL / Python None in a date column.
NULL == <<>>

Days == 1..MaxDay
HabitIds == 1..MaxId

----------------------------------------------------------------------------
\* Date conversions

\* date.strftime('%Y-%m-%d') of calendar day n of the window.
strftime(n) ==
    LET dom == n + 29
    IN  IF dom <= 31 THEN <<2025, 12, dom>> ELSE <<2026, 1, dom - 31>>

\* datetime.strptime(s, '%Y-%m-%d'): the calendar day of a date text.
strptime(s) ==
    IF s[1] = 2025 /\ s[2] = 12 THEN s[3] - 29 ELSE s[3] + 2

\* SQLite's text comparison of two date texts (fields are zero-padded, so the
\* bytewise order is the field-by-field order).
TextLess(a, b) ==
    \/ a[1] < b[1]
    \/ a[1] = b[1] /\ a[2] < b[2]
    \/ a[1] = b[1] /\ a[2] = b[2] /\ a[3] < b[3]

\* SQL LOWER(name) on the offered names.
LOWER(name) == IF name = "Run" THEN "run" ELSE name

----------------------------------------------------------------------------
VARIABLES
    habits,             \* table habits: id -> [name, streak, last_done, is_archived]
    habit_completions,  \* table habit_completions: bag of rows [habit_id, date]
    next_id,            \* AUTOINCREMENT sequence of habits.id
    ret,                \* the last call: operation, id, the date its clock read,
                        \* and what it returned
    pre,                \* the two tables as they were before the last call
    calls,              \* requests in progress, each on its own connection:
                        \* the statement it is at, its arguments, the habit row
                        \* it has read and what it returned
    tasks,              \* table tasks: id -> [name, done, date]
    next_task_id,       \* AUTOINCREMENT sequence of tasks.id
    clock               \* the calendar day a clock that only advances reads

vars == <<habits, habit_completions, next_id, ret, pre, calls, tasks,
          next_task_id, clock>>

\* The two tables of the current state.
Tables == [habits |-> habits, habit_completions |-> habit_completions]

\* A call's report: its arguments and (result, error) as the service returns
\* them; a None result is success = FALSE with new_streak 0, a None error is "".
Return(op, habit_id, today, success, new_streak, error) ==
    [op |-> op, habit_id |-> habit_id, today |-> today, success |-> success,
     new_streak |-> new_streak, error |-> error, raised |-> ""]

\* A call that ends by raising exception exc instead of returning.
Raise(op, habit_id, today, exc) ==
    [op |-> op, habit_id |-> habit_id, today |-> today, success |-> FALSE,
     new_streak |-> 0, error |-> "", raised |-> exc]

\* A request slot with no request in it.
Idle ==
    [pc |-> "idle", op |-> "none", habit_id |-> 0, today |-> NULL,
     habit_name |-> "", habit |-> NULL, ret |-> Return("none", 0, NULL, FALSE, 0, "")]

Init ==
    /\ calls = [c \in Callers |-> Idle]
    /\ tasks = <<>>
    /\ next_task_id = 1
    /\ clock = 1
    /\ habits = <<>>
    /\ habit_completions = EmptyBag
    /\ next_id = 1
    /\ ret = Return("none", 0, NULL, FALSE, 0, "")
    /\ pre = [habits |-> <<>>, habit_completions |-> EmptyBag]

----------------------------------------------------------------------------
\* Queries

\* Faulty variant of existing: the lookup never matches a row.
existingNever(T, habit_id, today) == FALSE

\* Faulty variant of existing: the lookup ignores the date.
existingAnyDate(T, habit_id, today) ==
    \E c \in BagToSet(T.habit_completions) : c.habit_id = habit_id

\* SELECT id FROM habit_completions WHERE habit_id = ? AND date = ?
existing(T, habit_id, today) ==
    BagIn([habit_id |-> habit_id, date |-> today], T.habit_completions)

\* SELECT date FROM habit_completions WHERE habit_id = ?
DatesOf(T, habit_id) ==
    {c.date : c \in {x \in BagToSet(T.habit_completions) : x.habit_id = habit_id}}

\* ... ORDER BY date DESC
RECURSIVE OrderByDateDesc(_)
OrderByDateDesc(S) ==
    IF S = {} THEN <<>>
    ELSE LET top == CHOOSE d \in S : \A e \in S \ {d} : TextLess(e, d)
         IN  <<top>> \o OrderByDateDesc(S \ {top})

----------------------------------------------------------------------------
\* Faulty variant of add_new_habit: the new row starts with streak 1 and is
\* archived.
add_new_habitNotFresh(habit_name) ==
    /\ next_id <= MaxId
    /\ UNCHANGED <<calls, tasks, next_task_id, clock>>
    /\ pre' = Tables
    /\ habits' = (next_id :> [name |-> habit_name, streak |-> 1,
                              last_done |-> NULL, is_archived |-> 1])
                 @@ habits
    /\ next_id' = next_id + 1
    /\ ret' = Return("add", next_id, NULL, TRUE, 0, "")
    /\ UNCHANGED habit_completions

\* HabitService.add_new_habit(habit_name): rejected when a habit with the same
\* name, ignoring case, exists; otherwise inserts (name, 0, NULL) under the next
\* id.  (reminder_time and created_at play no part in the streak logic.)
add_new_habit(habit_name) ==
    /\ next_id <= MaxId
    /\ UNCHANGED <<calls, tasks, next_task_id, clock>>
    /\ pre' = Tables
    /\ IF \E id \in DOMAIN habits : LOWER(habits[id].name) = LOWER(habit_name)
       THEN /\ ret' = Return("add", 0, NULL, FALSE, 0, "Habit already exists")
            /\ UNCHANGED <<habits, habit_completions, next_id>>
       ELSE /\ habits' = (next_id :> [name |-> habit_name, streak |-> 0,
                                      last_done |-> NULL, is_archived |-> 0])
                         @@ habits
            /\ next_id' = next_id + 1
            /\ ret' = Return("add", next_id, NULL, TRUE, 0, "")
            /\ UNCHANGED habit_completions

\* Faulty variant of CompleteNewStreak: the streak is never continued.
CompleteNewStreakNoIncrement(habit, today) == 1

\* Faulty variant of CompleteNewStreak: any later day continues the streak.
CompleteNewStreakAnyGap(habit, today) ==
    IF habit.last_done # NULL
    THEN LET days_diff == strptime(today) - strptime(habit.last_done)
         IN  IF days_diff >= 1 THEN habit.streak + 1 ELSE 1
    ELSE 1

\* Faulty variant of CompleteNewStreak: a first completion keeps the stored
\* streak instead of starting at 1.
CompleteNewStreakKeepsFirst(habit, today) ==
    IF habit.last_done # NULL
    THEN LET days_diff == strptime(today) - strptime(habit.last_done)
         IN  IF days_diff = 1 THEN habit.streak + 1 ELSE 1
    ELSE habit.streak

\* The streak computed by complete_habit_for_today from the habit row it read.
CompleteNewStreak(habit, today) ==
    IF habit.last_done # NULL
    THEN LET last_done  == strptime(habit.last_done)
             today_date == strptime(today)
             days_diff  == today_date - last_done
         IN  IF days_diff = 1 THEN habit.streak + 1 ELSE 1
    ELSE 1

\* Faulty variant of UniqueViolation: the table has no UNIQUE constraint.
UniqueViolationNever(completions, habit_id, today) == FALSE

\* UNIQUE(habit_id, date) of table habit_completions: an INSERT of a pair the
\* table holds fails with sqlite3.IntegrityError.
UniqueViolation(completions, habit_id, today) ==
    BagIn([habit_id |-> habit_id, date |-> today], completions)

\* INSERT INTO habit_completions (habit_id, date, created_at), when the
\* constraint lets it through: one more row.
InsertCompletion(completions, habit_id, today) ==
    completions (+) SetToBag({[habit_id |-> habit_id, date |-> today]})

\* Faulty variant of UpdateHabit: last_done is not written.
UpdateHabitStreakOnly(rows, habit_id, new_streak, last_done) ==
    [rows EXCEPT ![habit_id].streak = new_streak]

\* Faulty variant of UpdateHabit: the UPDATE does not set the streak.
UpdateHabitLastDoneOnly(rows, habit_id, new_streak, last_done) ==
    [rows EXCEPT ![habit_id].last_done = last_done]

\* Faulty variant of UpdateHabit: the UPDATE has no WHERE clause.
UpdateHabitAllRows(rows, habit_id, new_streak, last_done) ==
    [id \in DOMAIN rows |->
        [rows[id] EXCEPT !.streak = new_streak, !.last_done = last_done]]

\* UPDATE habits SET streak = ?, last_done = ? WHERE id = ?
UpdateHabit(rows, habit_id, new_streak, last_done) ==
    [rows EXCEPT ![habit_id].streak = new_streak,
                 ![habit_id].last_done = last_done]

\* The statements of complete_habit_for_today after its two lookups, run on
\* tables T with the habit row the first lookup returned: the streak, the
\* INSERT, the UPDATE and the commit.  The function catches no exception, so
\* a failing INSERT ends the call by raising, with nothing committed.
CompleteWrite(T, habit, habit_id, today) ==
    LET new_streak == CompleteNewStreak(habit, today)
    IN  IF UniqueViolation(T.habit_completions, habit_id, today)
        THEN [habits |-> T.habits, habit_completions |-> T.habit_completions,
              ret |-> Raise("complete", habit_id, today, "IntegrityError")]
        ELSE [habits |-> UpdateHabit(T.habits, habit_id, new_streak, today),
              habit_completions |->
                  InsertCompletion(T.habit_completions, habit_id, today),
              ret |-> Return("complete", habit_id, today, TRUE, new_streak, "")]

\* HabitService.complete_habit_for_today(habit_id) run on tables T when the
\* clock's date reads today: the tables it leaves and what it returns.
CompleteOutcome(T, habit_id, today) ==
    IF habit_id \notin DOMAIN T.habits
    THEN [habits |-> T.habits, habit_completions |-> T.habit_completions,
          ret |-> Return("complete", habit_id, today, FALSE, 0, "Habit not found")]
    ELSE IF existing(T, habit_id, today)
    THEN [habits |-> T.habits, habit_completions |-> T.habit_completions,
          ret |-> Return("complete", habit_id, today, FALSE, 0,
                         "Habit already completed today")]
    ELSE CompleteWrite(T, T.habits[habit_id], habit_id, today)

complete_habit_for_today(habit_id, today) ==
    LET out == CompleteOutcome(Tables, habit_id, today)
    IN  /\ pre' = Tables
        /\ habits' = out.habits
        /\ habit_completions' = out.habit_completions
        /\ ret' = out.ret
        /\ UNCHANGED <<next_id, calls, tasks, next_task_id, clock>>

\* The loop of uncomplete_habit_for_today over dates[1:]: counts the rows that
\* equal the expected day, which moves back one day per match, and breaks at
\* the first row that does not.
RECURSIVE StreakWalk(_, _, _, _)
StreakWalk(dates, i, expected, new_streak) ==
    IF i > Len(dates) THEN new_streak
    ELSE IF strptime(dates[i]) = expected
         THEN StreakWalk(dates, i + 1, expected - 1, new_streak + 1)
         ELSE new_streak

\* Faulty variant of Recompute: every remaining row counts, consecutive or not.
RecomputeCountsAll(dates) ==
    IF Len(dates) = 0
    THEN [new_streak |-> 0, last_done |-> NULL]
    ELSE [new_streak |-> Len(dates), last_done |-> dates[1]]

\* The recomputation of uncomplete_habit_for_today from the remaining rows,
\* read in descending date order.
Recompute(dates) ==
    IF Len(dates) = 0
    THEN [new_streak |-> 0, last_done |-> NULL]
    ELSE LET last_done_date == strptime(dates[1])
         IN  [new_streak |-> StreakWalk(dates, 2, last_done_date - 1, 1),
              last_done  |-> strftime(last_done_date)]

\* DELETE FROM habit_completions WHERE habit_id = ? AND date = ?
DeleteCompletion(completions, habit_id, today) ==
    [r \in DOMAIN completions \ {[habit_id |-> habit_id, date |-> today]}
        |-> completions[r]]

\* The try block of uncomplete_habit_for_today, run on tables T: the DELETE,
\* the recomputation from the remaining rows, the UPDATE and the commit.
UncompleteWrite(T, habit_id, today) ==
    LET remaining == DeleteCompletion(T.habit_completions, habit_id, today)
        dates == OrderByDateDesc(
            DatesOf([habits |-> T.habits, habit_completions |-> remaining],
                    habit_id))
        r == Recompute(dates)
    IN  [habits |-> UpdateHabit(T.habits, habit_id, r.new_streak, r.last_done),
         habit_completions |-> remaining,
         ret |-> Return("uncomplete", habit_id, today, TRUE, r.new_streak, "")]

\* Faulty variant of UncompleteOutcome: the habit is not looked up first.
UncompleteOutcomeNoLookup(T, habit_id, today) ==
    IF ~existing(T, habit_id, today)
    THEN [habits |-> T.habits, habit_completions |-> T.habit_completions,
          ret |-> Return("uncomplete", habit_id, today, FALSE, 0,
                         "Habit not completed today")]
    ELSE UncompleteWrite(T, habit_id, today)

\* HabitService.uncomplete_habit_for_today(habit_id) run on tables T when the
\* clock's date reads today: the tables it leaves and what it returns.
UncompleteOutcome(T, habit_id, today) ==
    IF habit_id \notin DOMAIN T.habits
    THEN [habits |-> T.habits, habit_completions |-> T.habit_completions,
          ret |-> Return("uncomplete", habit_id, today, FALSE, 0, "Habit not found")]
    ELSE IF ~existing(T, habit_id, today)
    THEN [habits |-> T.habits, habit_completions |-> T.habit_completions,
          ret |-> Return("uncomplete", habit_id, today, FALSE, 0,
                         "Habit not completed today")]
    ELSE UncompleteWrite(T, habit_id, today)

uncomplete_habit_for_today(habit_id, today) ==
    LET out == UncompleteOutcome(Tables, habit_id, today)
    IN  /\ pre' = Tables
        /\ habits' = out.habits
        /\ habit_completions' = out.habit_completions
        /\ ret' = out.ret
        /\ UNCHANGED <<next_id, calls, tasks, next_task_id, clock>>

----------------------------------------------------------------------------
\* Archiving

\* Faulty variant of SetArchived: the UPDATE also clears the streak.
SetArchivedClearsStreak(T, op, habit_id, flag) ==
    IF habit_id \notin DOMAIN T.habits
    THEN [habits |-> T.habits, habit_completions |-> T.habit_completions,
          ret |-> Return(op, habit_id, NULL, FALSE, 0, "Habit not found")]
    ELSE [habits |-> [T.habits EXCEPT ![habit_id].is_archived = flag,
                                      ![habit_id].streak = 0],
          habit_completions |-> T.habit_completions,
          ret |-> Return(op, habit_id, NULL, TRUE, 0, "")]

\* UPDATE habits SET is_archived = ? WHERE id = ?, and what the call returns:
\* "Habit not found" when no row was updated.
SetArchived(T, op, habit_id, flag) ==
    IF habit_id \notin DOMAIN T.habits
    THEN [habits |-> T.habits, habit_completions |-> T.habit_completions,
          ret |-> Return(op, habit_id, NULL, FALSE, 0, "Habit not found")]
    ELSE [habits |-> [T.habits EXCEPT ![habit_id].is_archived = flag],
          habit_completions |-> T.habit_completions,
          ret |-> Return(op, habit_id, NULL, TRUE, 0, "")]

\* HabitService.archive_habit(habit_id)
archive_habit(habit_id) ==
    LET out == SetArchived(Tables, "archive", habit_id, 1)
    IN  /\ pre' = Tables
        /\ habits' = out.habits
        /\ habit_completions' = out.habit_completions
        /\ ret' = out.ret
        /\ UNCHANGED <<next_id, calls, tasks, next_task_id, clock>>

\* HabitService.unarchive_habit(habit_id)
unarchive_habit(habit_id) ==
    LET out == SetArchived(Tables, "unarchive", habit_id, 0)
    IN  /\ pre' = Tables
        /\ habits' = out.habits
        /\ habit_completions' = out.habit_completions
        /\ ret' = out.ret
        /\ UNCHANGED <<next_id, calls, tasks, next_task_id, clock>>

----------------------------------------------------------------------------
\* Read operations

\* One entry of the listing of get_all_habits_with_status: the stored fields
\* of the row and done_today, the count of completion rows for (id, today) > 0.
ListingEntry(T, id, today) ==
    [id |-> id, name |-> T.habits[id].name, streak |-> T.habits[id].streak,
     last_done |-> T.habits[id].last_done,
     done_today |-> CopiesIn([habit_id |-> id, date |-> today],
                             T.habit_completions) > 0]

\* HabitService.get_archived_habits() run on tables T when the clock's date
\* reads today: the entries of the habits that are archived.
ArchivedOutcome(T, today) ==
    [habits |-> T.habits,
     habit_completions |-> T.habit_completions,
     ret |-> [result |-> {ListingEntry(T, id, today) :
                            id \in {i \in DOMAIN T.habits :
                                       T.habits[i].is_archived = 1}}]
             @@ Return("list_archived", 0, today, TRUE, 0, "")]

\* Habit.is_done_today() of the habit row when the clock's date reads today.
is_done_today(habit, today) ==
    IF habit.last_done = NULL THEN FALSE ELSE habit.last_done = today

\* Faulty variant of ListOutcome: listing a habit whose last completion is
\* older than yesterday writes its streak back as 0.
ListOutcomeExpiresStreaks(T, today) ==
    [habits |-> [id \in DOMAIN T.habits |->
                    IF /\ T.habits[id].last_done # NULL
                       /\ strptime(today) - strptime(T.habits[id].last_done) > 1
                    THEN [T.habits[id] EXCEPT !.streak = 0]
                    ELSE T.habits[id]],
     habit_completions |-> T.habit_completions,
     ret |-> [result |-> {ListingEntry(T, id, today) : id \in DOMAIN T.habits}]
             @@ Return("list", 0, today, TRUE, 0, "")]

\* HabitService.get_all_habits_with_status() run on tables T when the clock's
\* date reads today: only SELECTs, and the entries of the habits that are not
\* archived (their order, by created_at, is left out).
ListOutcome(T, today) ==
    [habits |-> T.habits,
     habit_completions |-> T.habit_completions,
     ret |-> [result |-> {ListingEntry(T, id, today) :
                            id \in {i \in DOMAIN T.habits :
                                       T.habits[i].is_archived = 0}}]
             @@ Return("list", 0, today, TRUE, 0, "")]

get_all_habits_with_status(today) ==
    LET out == ListOutcome(Tables, today)
    IN  /\ pre' = Tables
        /\ habits' = out.habits
        /\ habit_completions' = out.habit_completions
        /\ ret' = out.ret
        /\ UNCHANGED <<next_id, calls, tasks, next_task_id, clock>>

\* MAX(streak) over the rows, or 0 for an empty table.
BestStreak(rows) ==
    IF DOMAIN rows = {} THEN 0
    ELSE LET id == CHOOSE i \in DOMAIN rows :
                       \A j \in DOMAIN rows : rows[j].streak <= rows[i].streak
         IN  rows[id].streak

\* TaskService.get_dashboard_stats() run on tables T when the clock's date
\* reads today: only SELECTs; the habit and streak figures it returns (the
\* task figures and the rates derived from the counts are left out).
StatsOutcome(T, today) ==
    [habits |-> T.habits,
     habit_completions |-> T.habit_completions,
     ret |-> [result |->
                [total |-> Cardinality(DOMAIN T.habits),
                 done_today |-> BagCardinality(
                     [r \in {x \in DOMAIN T.habit_completions : x.date = today}
                         |-> T.habit_completions[r]]),
                 best_streak |-> BestStreak(T.habits),
                 active_streaks |-> Cardinality(
                     {i \in DOMAIN T.habits : T.habits[i].streak > 0})]]
             @@ Return("stats", 0, today, TRUE, 0, "")]

get_dashboard_stats(today) ==
    LET out == StatsOutcome(Tables, today)
    IN  /\ pre' = Tables
        /\ habits' = out.habits
        /\ habit_completions' = out.habit_completions
        /\ ret' = out.ret
        /\ UNCHANGED <<next_id, calls, tasks, next_task_id, clock>>

\* The HTTP status the complete and uncomplete routes give an error string:
\* 404 when it contains "not found", 400 otherwise.
StatusCode(error) == IF error = "Habit not found" THEN 404 ELSE 400

----------------------------------------------------------------------------
Next ==
    \/ \E habit_name \in Names : add_new_habit(habit_name)
    \/ \E habit_id \in HabitIds, now \in Days :
            complete_habit_for_today(habit_id, strftime(now))
    \/ \E habit_id \in HabitIds, now \in Days :
            uncomplete_habit_for_today(habit_id, strftime(now))
    \/ \E now \in Days : get_all_habits_with_status(strftime(now))
    \/ \E now \in Days : get_dashboard_stats(strftime(now))

Spec == Init /\ [][Next]_vars

\* Two habits side by side, over a shorter window of days, with archiving.
NextTwo ==
    \/ \E habit_name \in NamesTwo : add_new_habit(habit_name)
    \/ \E habit_id \in HabitIds, now \in 1..MaxDayTwo :
            complete_habit_for_today(habit_id, strftime(now))
    \/ \E habit_id \in HabitIds, now \in 1..MaxDayTwo :
            uncomplete_habit_for_today(habit_id, strftime(now))
    \/ \E habit_id \in HabitIds : archive_habit(habit_id)
    \/ \E habit_id \in HabitIds : unarchive_habit(habit_id)

SpecTwo == Init /\ [][NextTwo]_vars

----------------------------------------------------------------------------
\* Overlapping requests.  Every request opens its own connection
\* (get_db_connection) and runs its statements one at a time; a SELECT reads
\* the committed tables, and the statements from the first write to the commit
\* take effect together at the commit.

AllIdle == \A c \in Callers : calls[c].pc = "idle"

\* A request arrives: the handler reads the clock.  pre keeps the tables as
\* they were when the first of the overlapping requests arrived.
Begin(c, op, habit_id, today) ==
    /\ calls[c].pc = "idle"
    /\ calls' = [calls EXCEPT ![c] =
                    [Idle EXCEPT !.pc = "select_habit", !.op = op,
                                 !.habit_id = habit_id, !.today = today]]
    /\ pre' = IF AllIdle THEN Tables ELSE pre
    /\ UNCHANGED <<habits, habit_completions, next_id, ret, tasks, next_task_id, clock>>

\* SELECT * FROM habits WHERE id = ?, and the return when there is no row.
SelectHabit(c) ==
    LET call == calls[c]
    IN  /\ call.pc = "select_habit"
        /\ calls' = [calls EXCEPT ![c] =
              IF call.habit_id \notin DOMAIN habits
              THEN [call EXCEPT !.pc = "done",
                        !.ret = Return(call.op, call.habit_id, call.today,
                                       FALSE, 0, "Habit not found")]
              ELSE [call EXCEPT !.pc = "select_existing",
                                !.habit = habits[call.habit_id]]]
        /\ UNCHANGED <<habits, habit_completions, next_id, ret, pre, tasks, next_task_id, clock>>

\* SELECT id FROM habit_completions WHERE habit_id = ? AND date = ?, and the
\* return it leads to: complete stops when there is a row, uncomplete when
\* there is none.
SelectExisting(c) ==
    LET call == calls[c]
        found == existing(Tables, call.habit_id, call.today)
    IN  /\ call.pc = "select_existing"
        /\ calls' = [calls EXCEPT ![c] =
              IF call.op = "complete" /\ found
              THEN [call EXCEPT !.pc = "done",
                        !.ret = Return(call.op, call.habit_id, call.today,
                                       FALSE, 0, "Habit already completed today")]
              ELSE IF call.op = "uncomplete" /\ ~found
              THEN [call EXCEPT !.pc = "done",
                        !.ret = Return(call.op, call.habit_id, call.today,
                                       FALSE, 0, "Habit not completed today")]
              ELSE [call EXCEPT !.pc = "write"]]
        /\ UNCHANGED <<habits, habit_completions, next_id, ret, pre, tasks, next_task_id, clock>>

\* The writes and the commit.  complete computes its streak from the habit
\* row it read in SelectHabit; uncomplete recomputes from the rows left after
\* its DELETE.
Write(c) ==
    LET call == calls[c]
        out == IF call.op = "complete"
               THEN CompleteWrite(Tables, call.habit, call.habit_id, call.today)
               ELSE UncompleteWrite(Tables, call.habit_id, call.today)
    IN  /\ call.pc = "write"
        /\ habits' = out.habits
        /\ habit_completions' = out.habit_completions
        /\ calls' = [calls EXCEPT ![c] =
                        [call EXCEPT !.pc = "done", !.ret = out.ret]]
        /\ UNCHANGED <<next_id, ret, pre, tasks, next_task_id, clock>>

\* The responses have been sent and no request is in progress.
Quiesce ==
    /\ \A c \in Callers : calls[c].pc \in {"idle", "done"}
    /\ ~AllIdle
    /\ calls' = [c \in Callers |-> Idle]
    /\ UNCHANGED <<habits, habit_completions, next_id, ret, pre, tasks, next_task_id, clock>>

NextConc ==
    \/ \E habit_name \in Names : AllIdle /\ add_new_habit(habit_name)
    \/ \E c \in Callers, op \in {"complete", "uncomplete"},
           habit_id \in HabitIds, now \in 1..MaxDayConc :
            Begin(c, op, habit_id, strftime(now))
    \/ \E c \in Callers : SelectHabit(c)
    \/ \E c \in Callers : SelectExisting(c)
    \/ \E c \in Callers : Write(c)
    \/ Quiesce

SpecConc == Init /\ [][NextConc]_vars

----------------------------------------------------------------------------
\* Deleting a habit while other requests are in progress.

\* DELETE FROM habit_completions WHERE habit_id = ?
DeleteCompletionsOf(completions, habit_id) ==
    [r \in {q \in DOMAIN completions : q.habit_id # habit_id}
        |-> completions[r]]

\* The route DELETE /habits/<habit_id>: both DELETEs and the commit, or the
\* rollback and 404 "Habit not found" when no habit row was deleted.  The
\* report carries the tables as they were before the request.
delete_habit(habit_id) ==
    /\ IF habit_id \notin DOMAIN habits
       THEN /\ ret' = [before |-> Tables]
                          @@ Return("delete", habit_id, NULL, FALSE, 0,
                                    "Habit not found")
            /\ UNCHANGED <<habits, habit_completions>>
       ELSE /\ habit_completions' =
                   DeleteCompletionsOf(habit_completions, habit_id)
            /\ habits' = [id \in DOMAIN habits \ {habit_id} |-> habits[id]]
            /\ ret' = [before |-> Tables]
                          @@ Return("delete", habit_id, NULL, TRUE, 0, "")
    /\ UNCHANGED <<next_id, pre, calls, tasks, next_task_id, clock>>

NextDelete ==
    \/ \E habit_name \in Names : AllIdle /\ add_new_habit(habit_name)
    \/ \E c \in Callers, op \in {"complete", "uncomplete"},
           habit_id \in HabitIds, now \in 1..MaxDayConc :
            Begin(c, op, habit_id, strftime(now))
    \/ \E c \in Callers : SelectHabit(c)
    \/ \E c \in Callers : SelectExisting(c)
    \/ \E c \in Callers : Write(c)
    \/ Quiesce
    \/ \E habit_id \in HabitIds : delete_habit(habit_id)

SpecDelete == Init /\ [][NextDelete]_vars

----------------------------------------------------------------------------
\* Storage failures.  One statement of a call, or its commit, fails with
\* sqlite3.OperationalError (disk full, I/O error, database locked).

\* The statements complete_habit_for_today runs, in order.
CompleteSteps == <<"select_habit", "select_existing", "insert", "update", "commit">>

\* The statements uncomplete_habit_for_today runs, in order; the last four
\* are inside its try block.
UncompleteSteps ==
    <<"select_habit", "select_existing", "delete", "select_dates", "update",
      "commit">>

FailurePoints ==
    {CompleteSteps[i] : i \in DOMAIN CompleteSteps}
        \cup {UncompleteSteps[i] : i \in DOMAIN UncompleteSteps}

\* What the database holds after a connection with uncommitted writes (work)
\* is rolled back, or released without a commit: the committed tables T.
Rollback(T, work) == T

\* The statements a call gets to on tables T: up to its early return, or all
\* of them.
StepsReached(steps, T, habit_id, early) ==
    IF habit_id \notin DOMAIN T.habits THEN {steps[1]}
    ELSE IF early THEN {steps[1], steps[2]}
    ELSE {steps[i] : i \in DOMAIN steps}

\* complete_habit_for_today when statement fail_at fails.  No statement is
\* inside a try: the exception leaves the function, and the connection is
\* released with whatever it wrote uncommitted.
CompleteOutcomeFailing(T, habit_id, today, fail_at) ==
    LET normal == CompleteOutcome(T, habit_id, today)
        reached == StepsReached(CompleteSteps, T, habit_id,
                                existing(T, habit_id, today))
        inserted == [habits |-> T.habits,
                     habit_completions |->
                         InsertCompletion(T.habit_completions, habit_id, today)]
        work == IF fail_at \in {"select_habit", "select_existing", "insert"}
                THEN T
                ELSE IF fail_at = "update" THEN inserted
                ELSE [habits |-> normal.habits,
                      habit_completions |-> normal.habit_completions]
        kept == Rollback(T, work)
    IN  IF fail_at \notin reached
        THEN [normal EXCEPT !.ret = [failed_at |-> "none"] @@ normal.ret]
        ELSE [habits |-> kept.habits,
              habit_completions |-> kept.habit_completions,
              ret |-> [failed_at |-> fail_at]
                          @@ Raise("complete", habit_id, today,
                                   "OperationalError")]

\* uncomplete_habit_for_today when statement fail_at fails.  The two SELECTs
\* before the try raise; a failure inside the try is caught: rollback, then
\* return (None, "Failed to uncomplete habit").
UncompleteOutcomeFailing(T, habit_id, today, fail_at) ==
    LET normal == UncompleteOutcome(T, habit_id, today)
        reached == StepsReached(UncompleteSteps, T, habit_id,
                                ~existing(T, habit_id, today))
        deleted == [habits |-> T.habits,
                    habit_completions |->
                        DeleteCompletion(T.habit_completions, habit_id, today)]
        work == IF fail_at \in {"select_habit", "select_existing", "delete"}
                THEN T
                ELSE IF fail_at \in {"select_dates", "update"} THEN deleted
                ELSE [habits |-> normal.habits,
                      habit_completions |-> normal.habit_completions]
        kept == Rollback(T, work)
    IN  IF fail_at \notin reached
        THEN [normal EXCEPT !.ret = [failed_at |-> "none"] @@ normal.ret]
        ELSE [habits |-> kept.habits,
              habit_completions |-> kept.habit_completions,
              ret |-> [failed_at |-> fail_at] @@
                  IF fail_at \in {"select_habit", "select_existing"}
                  THEN Raise("uncomplete", habit_id, today, "OperationalError")
                  ELSE Return("uncomplete", habit_id, today, FALSE, 0,
                              "Failed to uncomplete habit")]

\* A complete call during which statement fail_at fails, if it is reached.
complete_with_failure(habit_id, today, fail_at) ==
    LET out == CompleteOutcomeFailing(Tables, habit_id, today, fail_at)
    IN  /\ pre' = Tables
        /\ habits' = out.habits
        /\ habit_completions' = out.habit_completions
        /\ ret' = out.ret
        /\ UNCHANGED <<next_id, calls, tasks, next_task_id, clock>>

\* An uncomplete call during which statement fail_at fails, if it is reached.
uncomplete_with_failure(habit_id, today, fail_at) ==
    LET out == UncompleteOutcomeFailing(Tables, habit_id, today, fail_at)
    IN  /\ pre' = Tables
        /\ habits' = out.habits
        /\ habit_completions' = out.habit_completions
        /\ ret' = out.ret
        /\ UNCHANGED <<next_id, calls, tasks, next_task_id, clock>>

NextFail ==
    \/ \E habit_name \in Names : add_new_habit(habit_name)
    \/ \E habit_id \in HabitIds, now \in Days, fail_at \in FailurePoints :
            complete_with_failure(habit_id, strftime(now), fail_at)
    \/ \E habit_id \in HabitIds, now \in Days, fail_at \in FailurePoints :
            uncomplete_with_failure(habit_id, strftime(now), fail_at)

SpecFail == Init /\ [][NextFail]_vars

----------------------------------------------------------------------------
\* Tasks

\* What a task call reports: (ok, error), with the task id and the table as
\* it was before the call.
TaskReturn(op, task_id, today, ok, error) ==
    [task_id |-> task_id, before |-> tasks]
        @@ Return(op, 0, today, ok, 0, error)

\* TaskService.add_new_task(task_name): INSERT (name, 0, today).
add_new_task(task_name, today) ==
    /\ next_task_id <= MaxTaskId
    /\ tasks' = (next_task_id :> [name |-> task_name, done |-> 0,
                                  date |-> today]) @@ tasks
    /\ next_task_id' = next_task_id + 1
    /\ ret' = TaskReturn("add_task", next_task_id, today, TRUE, "")
    /\ UNCHANGED <<habits, habit_completions, next_id, pre, calls, clock>>

\* Faulty variant of UpdateDoneRowCount: only rows whose value changes count.
UpdateDoneRowCountChanged(rows, task_id, done) ==
    IF task_id \in DOMAIN rows /\ rows[task_id].done # done THEN 1 ELSE 0

\* cursor.rowcount of UPDATE tasks SET done = ? WHERE id = ?: the rows the
\* WHERE clause matches, whether or not their value changes.
UpdateDoneRowCount(rows, task_id, done) ==
    IF task_id \in DOMAIN rows THEN 1 ELSE 0

\* UPDATE tasks SET done = ? WHERE id = ?
UpdateDone(rows, task_id, done) ==
    [id \in DOMAIN rows |->
        IF id = task_id THEN [rows[id] EXCEPT !.done = done] ELSE rows[id]]

\* complete_task_by_id / uncomplete_task_by_id: the UPDATE, then
\* (False, "Task not found") without a commit when no row was matched.
SetTaskDone(op, task_id, done) ==
    /\ IF UpdateDoneRowCount(tasks, task_id, done) = 0
       THEN /\ ret' = TaskReturn(op, task_id, NULL, FALSE, "Task not found")
            /\ UNCHANGED tasks
       ELSE /\ tasks' = UpdateDone(tasks, task_id, done)
            /\ ret' = TaskReturn(op, task_id, NULL, TRUE, "")
    /\ UNCHANGED <<habits, habit_completions, next_id, pre, calls,
                   next_task_id, clock>>

\* TaskService.complete_task_by_id(task_id)
complete_task_by_id(task_id) == SetTaskDone("complete_task", task_id, 1)

\* TaskService.uncomplete_task_by_id(task_id)
uncomplete_task_by_id(task_id) == SetTaskDone("uncomplete_task", task_id, 0)

NextTasks ==
    \/ \E task_name \in TaskNames, now \in Days :
            add_new_task(task_name, strftime(now))
    \/ \E task_id \in TaskIds : complete_task_by_id(task_id)
    \/ \E task_id \in TaskIds : uncomplete_task_by_id(task_id)

SpecTasks == Init /\ [][NextTasks]_vars

----------------------------------------------------------------------------
\* Habit names: overlapping adds, renames, and the migration from data.json.

\* str.strip() on the names of RenameInputs.
strip(name) == IF name = "Run " THEN "Run" ELSE name

\* The column constraint habits.name UNIQUE: its collation is BINARY, so it
\* compares the names as they are spelled.
NameTaken(rows, habit_name) ==
    \E id \in DOMAIN rows : rows[id].name = habit_name

\* SELECT id FROM habits WHERE LOWER(name) = LOWER(?) finds a row.
NameExists(rows, habit_name) ==
    \E id \in DOMAIN rows : LOWER(rows[id].name) = LOWER(habit_name)

\* Adds in progress, each of which may still take an id.
AddsInProgress ==
    Cardinality({c \in Callers : calls[c].pc \in {"add_check", "add_insert"}})

\* POST /habits arrives with an already stripped, non-empty name.
AddBegin(c, habit_name) ==
    /\ calls[c].pc = "idle"
    /\ next_id + AddsInProgress <= MaxId
    /\ calls' = [calls EXCEPT ![c] =
                    [Idle EXCEPT !.pc = "add_check", !.op = "add",
                                 !.habit_name = habit_name]]
    /\ UNCHANGED <<habits, habit_completions, next_id, ret, pre, tasks, next_task_id, clock>>

\* add_new_habit: the SELECT for a habit of the same name ignoring case, and
\* the return when there is one.
AddCheck(c) ==
    LET call == calls[c]
    IN  /\ call.pc = "add_check"
        /\ calls' = [calls EXCEPT ![c] =
              IF NameExists(habits, call.habit_name)
              THEN [call EXCEPT !.pc = "done",
                        !.ret = Return("add", 0, NULL, FALSE, 0,
                                       "Habit already exists")]
              ELSE [call EXCEPT !.pc = "add_insert"]]
        /\ UNCHANGED <<habits, habit_completions, next_id, ret, pre, tasks, next_task_id, clock>>

\* add_new_habit: the INSERT and the commit.  The INSERT is refused, with an
\* exception nothing catches, when the name as spelled is in the table.
AddInsert(c) ==
    LET call == calls[c]
    IN  /\ call.pc = "add_insert"
        /\ IF NameTaken(habits, call.habit_name)
           THEN /\ calls' = [calls EXCEPT ![c] =
                       [call EXCEPT !.pc = "done",
                            !.ret = Raise("add", 0, NULL, "IntegrityError")]]
                /\ UNCHANGED <<habits, next_id>>
           ELSE /\ habits' = (next_id :> [name |-> call.habit_name,
                                          streak |-> 0, last_done |-> NULL,
                                          is_archived |-> 0]) @@ habits
                /\ next_id' = next_id + 1
                /\ calls' = [calls EXCEPT ![c] =
                       [call EXCEPT !.pc = "done", !.habit_id = next_id,
                            !.ret = Return("add", next_id, NULL, TRUE, 0, "")]]
        /\ UNCHANGED <<habit_completions, ret, pre, tasks, next_task_id, clock>>

\* HabitService.update_habit(habit_id, name = name): the rename.
RenameOutcome(T, habit_id, name) ==
    LET new_name == strip(name)
        refuse(error) ==
            [habits |-> T.habits, habit_completions |-> T.habit_completions,
             ret |-> Return("rename", habit_id, NULL, FALSE, 0, error)]
    IN  IF habit_id \notin DOMAIN T.habits THEN refuse("Habit not found")
        ELSE IF new_name = "" THEN refuse("Habit name cannot be empty")
        ELSE IF \E id \in DOMAIN T.habits \ {habit_id} :
                    LOWER(T.habits[id].name) = LOWER(new_name)
        THEN refuse("Habit with this name already exists")
        ELSE [habits |-> [T.habits EXCEPT ![habit_id].name = new_name],
              habit_completions |-> T.habit_completions,
              ret |-> Return("rename", habit_id, NULL, TRUE, 0, "")]

update_habit(habit_id, name) ==
    LET out == RenameOutcome(Tables, habit_id, name)
    IN  /\ pre' = Tables
        /\ habits' = out.habits
        /\ habit_completions' = out.habit_completions
        /\ ret' = out.ret
        /\ UNCHANGED <<next_id, calls, tasks, next_task_id, clock>>

\* The habits a data.json can list: a name, a streak and a last_done.
MigrationEntries ==
    [name : NamesTwo, streak : {0, 1}, last_done : {NULL, strftime(1)}]

\* The data.json files: lists of at most MaxEntries habits.
DataFiles ==
    UNION {[1..n -> MigrationEntries] : n \in 0..MaxEntries}

\* The loop of migrate_data_from_json over data['habits'] from entry i on:
\* INSERT OR IGNORE skips an entry whose name, as spelled, is in the table,
\* and inserts every other entry with the streak and last_done of the file.
RECURSIVE MigrateHabits(_, _, _, _)
MigrateHabits(rows, nid, data, i) ==
    IF i > Len(data) THEN [habits |-> rows, next_id |-> nid]
    ELSE IF NameTaken(rows, data[i].name)
    THEN MigrateHabits(rows, nid, data, i + 1)
    ELSE MigrateHabits((nid :> [name |-> data[i].name,
                                streak |-> data[i].streak,
                                last_done |-> data[i].last_done,
                                is_archived |-> 0]) @@ rows,
                       nid + 1, data, i + 1)

\* TaskService.migrate_data_from_json() on a data.json listing data.
migrate_data_from_json(data) ==
    LET out == MigrateHabits(habits, next_id, data, 1)
    IN  /\ out.next_id + AddsInProgress <= MaxId + 1
        /\ pre' = Tables
        /\ habits' = out.habits
        /\ next_id' = out.next_id
        /\ ret' = Return("migrate", 0, NULL, TRUE, 0, "")
        /\ UNCHANGED <<habit_completions, calls, tasks, next_task_id, clock>>

NextNames ==
    \/ \E c \in Callers, habit_name \in NamesTwo : AddBegin(c, habit_name)
    \/ \E c \in Callers : AddCheck(c)
    \/ \E c \in Callers : AddInsert(c)
    \/ Quiesce
    \/ \E habit_id \in HabitIds, name \in RenameInputs :
            update_habit(habit_id, name)
    \/ \E data \in DataFiles : migrate_data_from_json(data)

SpecNames == Init /\ [][NextNames]_vars

\* Calls made one after the other while time passes: every call reads the
\* date off a clock that never goes back.
Tick ==
    /\ clock < MaxDay
    /\ clock' = clock + 1
    /\ UNCHANGED <<habits, habit_completions, next_id, ret, pre, calls, tasks,
                   next_task_id>>

NextMono ==
    \/ \E habit_name \in Names : add_new_habit(habit_name)
    \/ Tick
    \/ \E habit_id \in HabitIds :
            complete_habit_for_today(habit_id, strftime(clock))
    \/ \E habit_id \in HabitIds :
            uncomplete_habit_for_today(habit_id, strftime(clock))

SpecMono == Init /\ [][NextMono]_vars

----------------------------------------------------------------------------
\* The second implementation of complete, HabitManager.complete_habit, beside
\* HabitService.complete_habit_for_today.

\* The empty string '' in a text column.
EmptyText == <<"">>

\* The text '2025-12': a date text that lacks its day field.
ShortText == <<2025, 12>>

\* The last_done values a row can hold: the column takes any text.
StoredTexts == {NULL, strftime(1), EmptyText, ShortText}

\* datetime.strptime(s, '%Y-%m-%d') accepts the text.
MatchesFormat(s) == Len(s) = 3

\* HabitManager._calculate_new_streak(habit, completion_date); it is called
\* with a last_done that is empty or matches the format.
CalculateNewStreak(habit, completion_date) ==
    IF habit.last_done = NULL \/ habit.last_done = EmptyText
    THEN 1
    ELSE LET last_done  == strptime(habit.last_done)
             completion == strptime(completion_date)
             days_diff  == completion - last_done
         IN  IF days_diff = 1 THEN habit.streak + 1 ELSE 1

\* HabitManager.complete_habit(habit_id) on tables T when the clock's date
\* reads today.  Its body is one try block: an exception is caught, rolled
\* back and returned as (False, str(e), None).
ManagerCompleteOutcome(T, habit_id, today) ==
    LET refuse(error) ==
            [habits |-> T.habits, habit_completions |-> T.habit_completions,
             ret |-> Return("complete", habit_id, today, FALSE, 0, error)]
        habit == T.habits[habit_id]
    IN  IF habit_id \notin DOMAIN T.habits THEN refuse("Habit not found")
        ELSE IF existing(T, habit_id, today)
        THEN refuse("Habit already completed today")
        ELSE IF /\ habit.last_done # NULL
                /\ habit.last_done # EmptyText
                /\ ~MatchesFormat(habit.last_done)
        THEN refuse("time data does not match format '%Y-%m-%d'")
        ELSE LET new_streak == CalculateNewStreak(habit, today)
             IN  [habits |-> UpdateHabit(T.habits, habit_id, new_streak, today),
                  habit_completions |->
                      InsertCompletion(T.habit_completions, habit_id, today),
                  ret |-> Return("complete", habit_id, today, TRUE,
                                 new_streak, "")]

\* HabitService.complete_habit_for_today on tables whose last_done may be
\* any text: strptime raises ValueError on a text that does not match the
\* format, and nothing catches it.
CompleteOutcomeAnyText(T, habit_id, today) ==
    IF /\ habit_id \in DOMAIN T.habits
       /\ ~existing(T, habit_id, today)
       /\ T.habits[habit_id].last_done # NULL
       /\ ~MatchesFormat(T.habits[habit_id].last_done)
    THEN [habits |-> T.habits, habit_completions |-> T.habit_completions,
          ret |-> Raise("complete", habit_id, today, "ValueError")]
    ELSE CompleteOutcome(T, habit_id, today)

\* The habits a data.json can list when last_done is any text.
TextEntries == [name : Names, streak : {0, 1}, last_done : StoredTexts]

\* data.json files with one such habit.
TextFiles == {<<entry>> : entry \in TextEntries}

\* A complete request served by complete_habit_for_today; the report also
\* carries what complete_habit leaves and returns from the same tables.
complete_habit_both(habit_id, today) ==
    LET out == CompleteOutcomeAnyText(Tables, habit_id, today)
        manager == ManagerCompleteOutcome(Tables, habit_id, today)
    IN  /\ pre' = Tables
        /\ habits' = out.habits
        /\ habit_completions' = out.habit_completions
        /\ ret' = [manager |-> manager] @@ out.ret
        /\ UNCHANGED <<next_id, calls, tasks, next_task_id, clock>>

NextEquiv ==
    \/ \E habit_name \in Names : add_new_habit(habit_name)
    \/ \E data \in TextFiles : migrate_data_from_json(data)
    \/ \E habit_id \in HabitIds, now \in 1..MaxDayTwo :
            complete_habit_both(habit_id, strftime(now))

SpecEquiv == Init /\ [][NextEquiv]_vars

\* Habits that come from add_new_habit or from a migrated data.json, and
\* complete / uncomplete calls on them.
NextMigrate ==
    \/ \E habit_name \in Names : add_new_habit(habit_name)
    \/ \E data \in DataFiles : migrate_data_from_json(data)
    \/ \E habit_id \in HabitIds, now \in 1..MaxDayTwo :
            complete_habit_for_today(habit_id, strftime(now))
    \/ \E habit_id \in HabitIds, now \in 1..MaxDayTwo :
            uncomplete_habit_for_today(habit_id, strftime(now))

SpecMigrate == Init /\ [][NextMigrate]_vars

----------------------------------------------------------------------------
\* What the specification derives from a habit's completion records

\* The calendar days on which habit_id has a completion record in tables T.
CalendarDays(T, habit_id) == {strptime(d) : d \in DatesOf(T, habit_id)}

\* The most recent day of a non-empty set of days.
Latest(D) == CHOOSE d \in D : \A e \in D : e <= d

\* The number of consecutive days present in D counting backward from day d.
RECURSIVE RunEndingAt(_, _)
RunEndingAt(D, d) == IF d \in D THEN 1 + RunEndingAt(D, d - 1) ELSE 0

DerivedStreak(D) == IF D = {} THEN 0 ELSE RunEndingAt(D, Latest(D))

DerivedLastDone(D) == IF D = {} THEN NULL ELSE strftime(Latest(D))

\* Tables T hold a completion record for (habit_id, date).
HasRecord(T, habit_id, date) ==
    \E c \in BagToSet(T.habit_completions) :
        c.habit_id = habit_id /\ c.date = date

\* The record of the last call's (habit, date).
CallRow == [habit_id |-> ret.habit_id, date |-> ret.today]

\* Every row other than the last call's (habit, date) is in the table as many
\* times as before the call.
OtherRowsKept ==
    \A r \in (BagToSet(habit_completions) \cup BagToSet(pre.habit_completions))
              \ {CallRow} :
        CopiesIn(r, habit_completions) = CopiesIn(r, pre.habit_completions)

\* The last call was a successful op.
Done(op) == ret.op = op /\ ret.success

\* The last call was op on a habit that existed when it was made.
CalledOnHabit(op) == ret.op = op /\ ret.habit_id \in DOMAIN pre.habits

\* The row of the last call's habit before and after the call.
Before == pre.habits[ret.habit_id]
After == habits[ret.habit_id]

\* Whole days from the habit's last-completed date before the call to the
\* call's date.
Gap == strptime(ret.today) - strptime(Before.last_done)

----------------------------------------------------------------------------
\* C1: in every reachable state each habit's stored streak equals the number
\* of consecutive calendar dates in its completion records counting backward
\* from the most recent one (0 when it has none).
C1_StreakIsDerived ==
    \A id \in DOMAIN habits :
        habits[id].streak = DerivedStreak(CalendarDays(Tables, id))

\* C2: in every reachable state each habit's stored last-completed date is
\* null exactly when it has no completion record, and otherwise is the most
\* recent date among its records.
C2_LastDoneIsDerived ==
    \A id \in DOMAIN habits :
        /\ habits[id].last_done = NULL <=> CalendarDays(Tables, id) = {}
        /\ habits[id].last_done = DerivedLastDone(CalendarDays(Tables, id))

\* C3: after a successful complete(habit, today), an immediate
\* uncomplete(habit, today) succeeds and leaves the streak, the last-completed
\* date and the completion records as they were before the complete.
C3_RoundTrip ==
    Done("complete") =>
        LET undo == UncompleteOutcome(Tables, ret.habit_id, ret.today)
        IN  /\ undo.ret.success
            /\ undo.habits[ret.habit_id].streak = Before.streak
            /\ undo.habits[ret.habit_id].last_done = Before.last_done
            /\ undo.habit_completions = pre.habit_completions

\* C4: after every successful uncomplete(habit, today) the record for
\* (habit, today) is gone and no other record changed; with no record left the
\* streak is 0 and the last-completed date null; otherwise the last-completed
\* date is the most recent remaining date and the streak is the number of
\* consecutive dates present walking backward from it.
C4_UncompleteRecomputes ==
    Done("uncomplete") =>
        LET D == CalendarDays(Tables, ret.habit_id)
        IN  /\ ~HasRecord(Tables, ret.habit_id, ret.today)
            /\ HasRecord(pre, ret.habit_id, ret.today)
            /\ CopiesIn(CallRow, habit_completions) = 0
            /\ OtherRowsKept
            /\ D = {} => After.streak = 0 /\ After.last_done = NULL
            /\ D # {} => /\ After.last_done = strftime(Latest(D))
                         /\ After.streak = RunEndingAt(D, Latest(D))

\* Records on days 1, 2, 4 with cached streak 1; uncomplete day 4 has left
\* streak 2 and last-completed day 2 (a decrement would have left 0).
C4_Witness ==
    /\ Done("uncomplete")
    /\ CalendarDays(pre, ret.habit_id) = {1, 2, 4}
    /\ ret.today = strftime(4)
    /\ Before.streak = 1
    /\ After.streak = 2
    /\ After.last_done = strftime(2)

\* C5: complete(habit, today) on a habit whose last-completed date is the day
\* before today and which has no record for today succeeds and sets the streak
\* to the old stored streak + 1.
C5_ConsecutiveDayIncrements ==
    (/\ CalledOnHabit("complete")
     /\ Before.last_done # NULL
     /\ Gap = 1
     /\ ~HasRecord(pre, ret.habit_id, ret.today))
    => /\ ret.success
       /\ After.streak = Before.streak + 1

\* A complete on the day after the last-completed date has taken the streak
\* from 2 to 3.
C5_Witness ==
    /\ Done("complete")
    /\ Before.last_done # NULL
    /\ Gap = 1
    /\ Before.streak = 2
    /\ After.streak = 3

\* C6: a successful complete(habit, today) on a habit with a non-null
\* last-completed date whose gap to today is not exactly 1 day (more than 1, or
\* negative) sets the streak to 1 whatever the old streak was.
C6_GapResets ==
    (/\ Done("complete")
     /\ Before.last_done # NULL
     /\ Gap # 1)
    => After.streak = 1

\* A complete two or more days after the last-completed date has reset a
\* streak of 2 or more to 1.
C6_Witness ==
    /\ Done("complete")
    /\ Before.last_done # NULL
    /\ Gap > 1
    /\ Before.streak >= 2
    /\ After.streak = 1

\* C7: complete(habit, today) on a habit with no completions (last-completed
\* date null) succeeds and yields streak 1.
C7_FirstCompletion ==
    (/\ CalledOnHabit("complete")
     /\ Before.last_done = NULL)
    => /\ ret.success
       /\ ret.new_streak = 1
       /\ After.streak = 1

\* A habit with no completion has been completed.
C7_Witness ==
    /\ Done("complete")
    /\ Before.last_done = NULL
    /\ CalendarDays(pre, ret.habit_id) = {}
    /\ After.streak = 1

\* C8: every successful complete(habit, today) adds exactly the record
\* (habit, today), removes none, and sets the last-completed date to today.
C8_CompleteInsertsAndStamps ==
    Done("complete") =>
        /\ ~HasRecord(pre, ret.habit_id, ret.today)
        /\ CopiesIn(CallRow, habit_completions) = 1
        /\ OtherRowsKept
        /\ After.last_done = ret.today

\* A complete for a date earlier than the previous last-completed date.
C8_Witness ==
    /\ Done("complete")
    /\ Before.last_done # NULL
    /\ Gap < 0
    /\ After.last_done = ret.today
    /\ BagCardinality(habit_completions) =
           BagCardinality(pre.habit_completions) + 1

\* C9: complete(habit, today) when a record for (habit, today) exists returns
\* the already-completed error and leaves the streak, the last-completed date
\* and the completion records unchanged.
C9_DoubleCompleteRejected ==
    (/\ CalledOnHabit("complete")
     /\ HasRecord(pre, ret.habit_id, ret.today))
    => /\ ~ret.success
       /\ ret.error = "Habit already completed today"
       /\ Tables = pre

\* A second complete for the date the habit was last completed on.
C9_Witness ==
    /\ CalledOnHabit("complete")
    /\ HasRecord(pre, ret.habit_id, ret.today)
    /\ Before.last_done = ret.today
    /\ ret.error = "Habit already completed today"

\* C10: uncomplete(habit, today) when no record for (habit, today) exists
\* returns the not-completed error and changes neither the streak, the
\* last-completed date nor any completion record.
C10_UncompleteWithoutRecordRejected ==
    (/\ CalledOnHabit("uncomplete")
     /\ ~HasRecord(pre, ret.habit_id, ret.today))
    => /\ ~ret.success
       /\ ret.error = "Habit not completed today"
       /\ Tables = pre

\* An uncomplete for a date without a record, on a habit that has records for
\* other dates.
C10_Witness ==
    /\ CalledOnHabit("uncomplete")
    /\ ~HasRecord(pre, ret.habit_id, ret.today)
    /\ CalendarDays(pre, ret.habit_id) # {}
    /\ ret.error = "Habit not completed today"

----------------------------------------------------------------------------
\* C11: complete and uncomplete report the three precondition violations as
\* three different errors and never as a success: an unknown habit id gives
\* habit-not-found (and changes nothing), a complete with a record for the date
\* gives already-completed, an uncomplete without a record for the date gives
\* not-completed; the routes turn the first into 404 and the others into 400.
C11_DistinctErrors ==
    ret.op \in {"complete", "uncomplete"} =>
        LET unknown == ret.habit_id \notin DOMAIN pre.habits
            double  == /\ ret.op = "complete" /\ ~unknown
                       /\ HasRecord(pre, ret.habit_id, ret.today)
            absent  == /\ ret.op = "uncomplete" /\ ~unknown
                       /\ ~HasRecord(pre, ret.habit_id, ret.today)
        IN  /\ unknown <=> ret.error = "Habit not found"
            /\ double <=> ret.error = "Habit already completed today"
            /\ absent <=> ret.error = "Habit not completed today"
            /\ (unknown \/ double \/ absent) <=> ~ret.success
            /\ ~ret.success => ret.error # "" /\ ret.raised = ""
            /\ unknown => Tables = pre
            /\ StatusCode(ret.error) = IF unknown THEN 404 ELSE 400

\* An uncomplete of an unknown id while another habit exists.
C11_Witness ==
    /\ ret.op = "uncomplete"
    /\ ret.habit_id \notin DOMAIN pre.habits
    /\ DOMAIN pre.habits # {}
    /\ ret.error = "Habit not found"
    /\ Tables = pre

----------------------------------------------------------------------------
\* C16: in every reachable state each habit's streak is a non-negative
\* integer, and it is 0 exactly when the last-completed date is null.
C16_ZeroStreakIffNeverDone ==
    \A id \in DOMAIN habits :
        /\ habits[id].streak \in Nat
        /\ habits[id].streak = 0 <=> habits[id].last_done = NULL

\* An uncomplete has removed the only record of a habit with a positive
\* streak, leaving streak 0 and no last-completed date.
C16_Witness ==
    /\ Done("uncomplete")
    /\ Before.streak >= 1
    /\ Before.last_done # NULL
    /\ After.streak = 0
    /\ After.last_done = NULL

\* C17: from a new habit, complete on three consecutive days yields streaks
\* 1, 2, 3; then uncomplete of the third day gives streak 2 and last-completed
\* the second day, uncomplete of the second day gives streak 1 and
\* last-completed the first day, and uncomplete of the first day gives streak 0
\* and last-completed null.
C17_Scenario ==
    (ret.op = "add" /\ ret.success) =>
        \A d \in Days : (d + 2) \in Days =>
            LET id == ret.habit_id
                c1 == CompleteOutcome(Tables, id, strftime(d))
                c2 == CompleteOutcome(c1, id, strftime(d + 1))
                c3 == CompleteOutcome(c2, id, strftime(d + 2))
                u3 == UncompleteOutcome(c3, id, strftime(d + 2))
                u2 == UncompleteOutcome(u3, id, strftime(d + 1))
                u1 == UncompleteOutcome(u2, id, strftime(d))
            IN  /\ c1.ret.success /\ c1.ret.new_streak = 1
                /\ c2.ret.success /\ c2.ret.new_streak = 2
                /\ c3.ret.success /\ c3.ret.new_streak = 3
                /\ c3.habits[id].streak = 3
                /\ u3.ret.success
                /\ u3.habits[id].streak = 2
                /\ u3.habits[id].last_done = strftime(d + 1)
                /\ u2.ret.success
                /\ u2.habits[id].streak = 1
                /\ u2.habits[id].last_done = strftime(d)
                /\ u1.ret.success
                /\ u1.habits[id].streak = 0
                /\ u1.habits[id].last_done = NULL

\* The scenario's fourth step has run: with records on days 1, 2, 3 and streak
\* 3, uncomplete of day 3 has left streak 2 and last-completed day 2.
C17_Witness ==
    /\ Done("uncomplete")
    /\ CalendarDays(pre, ret.habit_id) = {1, 2, 3}
    /\ Before.streak = 3
    /\ ret.today = strftime(3)
    /\ After.streak = 2
    /\ After.last_done = strftime(2)

----------------------------------------------------------------------------
\* C19: a habit's stored streak and last-completed date change only in a
\* successful complete or uncomplete of that habit: the listing and the
\* dashboard statistics leave both tables as they were, whatever the date, and
\* report the stored streak.
C19_OnlyMutationsChangeStreak ==
    /\ \A id \in DOMAIN pre.habits \cap DOMAIN habits :
           (\/ habits[id].streak # pre.habits[id].streak
            \/ habits[id].last_done # pre.habits[id].last_done)
           => /\ ret.op \in {"complete", "uncomplete"}
              /\ ret.success
              /\ ret.habit_id = id
    /\ ret.op \in {"list", "stats"} => Tables = pre
    /\ ret.op = "list" =>
           \A e \in ret.result : e.streak = pre.habits[e.id].streak
    /\ ret.op = "stats" => ret.result.best_streak = BestStreak(habits)

\* A listing made three days after the habit's last completion shows it not
\* done today and with its old positive streak, which is still stored.
C19_Witness ==
    /\ ret.op = "list"
    /\ ret.today = strftime(4)
    /\ \E e \in ret.result :
           /\ e.last_done = strftime(1)
           /\ e.streak >= 1
           /\ ~e.done_today
           /\ habits[e.id].streak = e.streak
           /\ pre.habits[e.id].streak = e.streak

----------------------------------------------------------------------------
\* C18: a complete or uncomplete call on one habit, successful or failing,
\* leaves every other habit's row (streak, last-completed date, archived flag,
\* name) and completion records unchanged.
C18_HabitsIndependent ==
    ret.op \in {"complete", "uncomplete"} =>
        /\ \A other \in DOMAIN pre.habits \ {ret.habit_id} :
               /\ other \in DOMAIN habits
               /\ habits[other] = pre.habits[other]
               /\ \A r \in BagToSet(habit_completions)
                           \cup BagToSet(pre.habit_completions) :
                      r.habit_id = other =>
                          CopiesIn(r, habit_completions) =
                              CopiesIn(r, pre.habit_completions)
        /\ DOMAIN habits = DOMAIN pre.habits

\* A successful complete on one habit while another, archived, habit has a
\* streak and a record for another date.
C18_Witness ==
    /\ Done("complete")
    /\ \E other \in DOMAIN habits \ {ret.habit_id} :
           /\ habits[other].is_archived = 1
           /\ habits[other].streak >= 1
           /\ habits[other].last_done # ret.today
           /\ habits[other] = pre.habits[other]
           /\ HasRecord(Tables, other, habits[other].last_done)

----------------------------------------------------------------------------
\* C12: in every reachable state, whatever the order and the overlap of
\* complete and uncomplete requests, habit_completions has at most one row
\* for each (habit_id, date).
C12_AtMostOneRecord ==
    \A r \in BagToSet(habit_completions) : CopiesIn(r, habit_completions) <= 1

\* Two overlapping complete requests for one habit and one date both reached
\* their INSERT; the second was refused and the row is there once.
C12_Witness ==
    \E c \in Callers :
        /\ calls[c].pc = "done"
        /\ calls[c].ret.raised = "IntegrityError"
        /\ CopiesIn([habit_id |-> calls[c].habit_id, date |-> calls[c].today],
                    habit_completions) = 1

----------------------------------------------------------------------------
\* C13: when two complete requests for the same habit and the same date
\* overlap (the habit exists and has no record for the date when they
\* arrive), exactly one succeeds and the other returns "Habit already
\* completed today"; one record exists and the streak was advanced once.
C13_ExactlyOneSucceeds ==
    \A x, y \in Callers :
        (/\ x # y
         /\ calls[x].pc = "done" /\ calls[y].pc = "done"
         /\ calls[x].op = "complete" /\ calls[y].op = "complete"
         /\ calls[x].habit_id = calls[y].habit_id
         /\ calls[x].today = calls[y].today
         /\ calls[x].habit_id \in DOMAIN pre.habits
         /\ ~HasRecord(pre, calls[x].habit_id, calls[x].today)
         /\ calls[x].ret.success)
        => /\ ~calls[y].ret.success
           /\ calls[y].ret.raised = ""
           /\ calls[y].ret.error = "Habit already completed today"
           /\ CopiesIn([habit_id |-> calls[x].habit_id, date |-> calls[x].today],
                       habit_completions) = 1
           /\ habits[calls[x].habit_id].streak = calls[x].ret.new_streak

\* What one request returns and leaves when it runs alone on tables T.
SerialOutcome(T, call) ==
    IF call.op = "complete"
    THEN CompleteOutcome(T, call.habit_id, call.today)
    ELSE UncompleteOutcome(T, call.habit_id, call.today)

\* The requests of x and then y, run one after the other from the tables pre,
\* return what x and y returned and leave the current tables.
SerialMatches(x, y) ==
    LET o1 == SerialOutcome(pre, calls[x])
        o2 == SerialOutcome([habits |-> o1.habits,
                             habit_completions |-> o1.habit_completions],
                            calls[y])
    IN  /\ o1.ret = calls[x].ret
        /\ o2.ret = calls[y].ret
        /\ o2.habits = habits
        /\ o2.habit_completions = habit_completions

\* C14: overlapping complete / uncomplete requests on one habit return, and
\* leave in the tables, what some serial order of the same requests returns
\* and leaves.  Stated for requests none of which ended in an exception.
C14_Serializable ==
    (/\ \A c \in Callers : calls[c].pc = "done" /\ calls[c].ret.raised = ""
     /\ \A c, d \in Callers : calls[c].habit_id = calls[d].habit_id)
    => \E x, y \in Callers : x # y /\ SerialMatches(x, y)

----------------------------------------------------------------------------
\* The last call was a complete or uncomplete during which one of the
\* statements from its first write to its commit failed.
StorageFailed ==
    /\ ret.op \in {"complete", "uncomplete"}
    /\ ret.failed_at \notin {"none", "select_habit", "select_existing"}

\* Neither table differs from what it was before the call.
NothingPersisted ==
    /\ habits = pre.habits
    /\ habit_completions = pre.habit_completions

\* C15: when a storage failure occurs at a write or at the commit of complete
\* or uncomplete, nothing the call wrote persists, and the call returns an
\* error result instead of raising.
C15_AllOrNothingAndReturned ==
    StorageFailed =>
        /\ NothingPersisted
        /\ ret.raised = ""
        /\ ~ret.success
        /\ ret.error # ""

\* The all-or-nothing half of C15 alone.
FailureLeavesTables == StorageFailed => NothingPersisted

----------------------------------------------------------------------------
\* Two names are the same ignoring letter case.
SameIgnoringCase(a, b) ==
    \/ a = b
    \/ {a, b} = {"run", "Run"}

\* C20: in every reachable state, after any adds (overlapping or not),
\* renames and migrations, no two habits have names that are equal ignoring
\* letter case.
C20_NamesUniqueIgnoringCase ==
    \A i, j \in DOMAIN habits :
        i # j => ~SameIgnoringCase(habits[i].name, habits[j].name)

----------------------------------------------------------------------------
\* C21: a successful complete returns a new streak that is at least 1 and is
\* the streak stored for the habit after the call; a successful uncomplete
\* returns the streak stored after the call.
C21_ReturnedStreakIsStored ==
    /\ Done("complete") =>
           /\ ret.new_streak >= 1
           /\ ret.new_streak = After.streak
    /\ Done("uncomplete") => ret.new_streak = After.streak

\* A successful complete that continued a streak.
C21_Witness ==
    /\ Done("complete")
    /\ ret.new_streak >= 2
    /\ After.streak = ret.new_streak

\* C22: a habit created by add_new_habit has streak 0, no last-completed
\* date, no completion record and is not archived, and a complete of it
\* succeeds whatever the date.
C22_NewHabitIsFresh ==
    Done("add") =>
        /\ ret.habit_id \in DOMAIN habits
        /\ ret.habit_id \notin DOMAIN pre.habits
        /\ After.streak = 0
        /\ After.last_done = NULL
        /\ After.is_archived = 0
        /\ \A r \in BagToSet(habit_completions) : r.habit_id # ret.habit_id
        /\ \A now \in Days :
               CompleteOutcome(Tables, ret.habit_id, strftime(now)).ret.success

\* A habit has just been created.
C22_Witness ==
    /\ Done("add")
    /\ ret.habit_id \in DOMAIN habits
    /\ After.streak = 0
    /\ CompleteOutcome(Tables, ret.habit_id, strftime(MaxDay)).ret.success

----------------------------------------------------------------------------
\* C23: on an existing task complete_task_by_id succeeds and leaves done = 1,
\* uncomplete_task_by_id succeeds and leaves done = 0, whatever done was; a
\* new task has done = 0; on an unknown id both return "Task not found" and
\* no task changes.  No call changes another task.
C23_TaskFlags ==
    /\ ret.op = "add_task" =>
           /\ ret.success
           /\ tasks[ret.task_id].done = 0
    /\ ret.op \in {"complete_task", "uncomplete_task"} =>
           IF ret.task_id \in DOMAIN ret.before
           THEN /\ ret.success /\ ret.error = ""
                /\ tasks[ret.task_id].done =
                       (IF ret.op = "complete_task" THEN 1 ELSE 0)
                /\ DOMAIN tasks = DOMAIN ret.before
                /\ \A id \in DOMAIN tasks \ {ret.task_id} :
                       tasks[id] = ret.before[id]
           ELSE /\ ~ret.success /\ ret.error = "Task not found"
                /\ tasks = ret.before

\* complete_task_by_id has succeeded on a task that was done already, while
\* another task exists.
C23_Witness ==
    /\ ret.op = "complete_task"
    /\ ret.success
    /\ ret.before[ret.task_id].done = 1
    /\ tasks[ret.task_id].done = 1
    /\ \E id \in DOMAIN tasks : id # ret.task_id

----------------------------------------------------------------------------
\* C24: in every reachable state, also with habits that a migration
\* inserted, a habit's non-null last-completed date has a completion record,
\* and a successful complete never finds a gap of 0 days between the
\* last-completed date and today.
C24_NoZeroGap ==
    /\ \A id \in DOMAIN habits :
           habits[id].last_done # NULL =>
               HasRecord(Tables, id, habits[id].last_done)
    /\ (Done("complete") /\ Before.last_done # NULL) => Gap # 0

----------------------------------------------------------------------------
\* C25: when the date never decreases between calls, calls do not overlap
\* and habits come from add_new_habit only, every habit's stored streak is
\* the length of the run of consecutive dates ending at its most recent
\* completion record, and its stored last-completed date is that most recent
\* date (null and 0 without records).
C25_CacheMatchesRecordsUnderMonotoneClock ==
    \A id \in DOMAIN habits :
        LET D == CalendarDays(Tables, id)
        IN  /\ habits[id].streak = DerivedStreak(D)
            /\ habits[id].last_done = DerivedLastDone(D)
            /\ \A d \in D : d <= clock

\* A complete on the clock's date continued a streak to three days or more.
C25_Witness ==
    /\ Done("complete")
    /\ ret.new_streak >= 3
    /\ strptime(ret.today) = clock
    /\ habits[ret.habit_id].streak =
           DerivedStreak(CalendarDays(Tables, ret.habit_id))

----------------------------------------------------------------------------
\* What complete_habit returned and left agrees with what
\* complete_habit_for_today returned and left.
SameAsManager ==
    /\ ret.manager.habits = habits
    /\ ret.manager.habit_completions = habit_completions
    /\ ret.manager.ret.success = ret.success
    /\ ret.manager.ret.new_streak = ret.new_streak
    /\ ret.raised = ""
    /\ ret.manager.ret.error = ret.error

\* C26: on every habit state (unknown id, already completed today, any stored
\* last_done) and date, HabitManager.complete_habit and
\* HabitService.complete_habit_for_today return the same outcome and make the
\* same changes to the habit row and the completion records.
C26_CompleteImplementationsAgree ==
    ret.op = "complete" => SameAsManager

\* The two agree when the stored last_done is null or a date.
AgreeOnDates ==
    (/\ ret.op = "complete"
     /\ ret.habit_id \in DOMAIN pre.habits
        => Before.last_done = NULL \/ MatchesFormat(Before.last_done))
    => SameAsManager

----------------------------------------------------------------------------
\* The days that can be the current date when time has not gone back: those
\* on or after every stored date.
PossibleToday ==
    {now \in Days :
        /\ \A r \in BagToSet(habit_completions) : strptime(r.date) <= now
        /\ \A id \in DOMAIN habits :
               habits[id].last_done # NULL => strptime(habits[id].last_done) <= now}

\* C27: in every reachable state and for every current date, a habit's
\* last_done equals the date (Habit.is_done_today) exactly when a completion
\* record exists for the habit and the date (done_today of the listing, and
\* the check that makes complete fail).
C27_DoneTodayNotionsAgree ==
    \A id \in DOMAIN habits, now \in PossibleToday :
        LET today == strftime(now)
        IN  /\ is_done_today(habits[id], today)
                   = ListingEntry(Tables, id, today).done_today
            /\ is_done_today(habits[id], today) = existing(Tables, id, today)

----------------------------------------------------------------------------
\* C28: in every reachable state, also when a delete runs between the steps
\* of a complete on the same habit, each completion record refers to an
\* existing habit.
C28_NoOrphanRecords ==
    \A r \in BagToSet(habit_completions) : r.habit_id \in DOMAIN habits

\* The delete request itself: a delete of an existing habit removes the habit
\* and all of its completion records at once and leaves the other habits and
\* records; a delete of an unknown id returns "Habit not found" and removes
\* nothing.
DeleteIsWhole ==
    [][(ret'.op = "delete" /\ ret'.before = Tables /\ calls' = calls)
        => IF ret'.habit_id \in DOMAIN habits
           THEN /\ ret'.success
                /\ DOMAIN habits' = DOMAIN habits \ {ret'.habit_id}
                /\ \A r \in BagToSet(habit_completions') :
                       r.habit_id # ret'.habit_id
           ELSE /\ ret'.error = "Habit not found"
                /\ habits' = habits
                /\ habit_completions' = habit_completions]_vars

----------------------------------------------------------------------------
\* The ids a listing shows.
ListedIds(out) == {entry.id : entry \in out.ret.result}

\* Tables T with the archived flag of habit id set to flag.
WithFlag(T, id, flag) ==
    [habits |-> [T.habits EXCEPT ![id].is_archived = flag],
     habit_completions |-> T.habit_completions]

\* Two outcomes that differ at most in the archived flag of habit id.
SameButFlag(a, b, id) ==
    /\ a.ret = b.ret
    /\ a.habit_completions = b.habit_completions
    /\ DOMAIN a.habits = DOMAIN b.habits
    /\ \A i \in DOMAIN a.habits :
           [a.habits[i] EXCEPT !.is_archived = 0]
               = [b.habits[i] EXCEPT !.is_archived = 0]

\* C29: archive_habit and unarchive_habit change only the archived flag of
\* the habit (every other field, every other habit and the completion records
\* stay), succeed whatever the flag was, undo each other, and return "Habit
\* not found" for an unknown id changing nothing; every habit is in exactly
\* one of the active and the archived listing; complete and uncomplete return
\* and write the same on a habit whether it is archived or not.
C29_ArchiveOnlySetsFlag ==
    /\ ret.op \in {"archive", "unarchive"} =>
           LET flag == IF ret.op = "archive" THEN 1 ELSE 0
               back == IF ret.op = "archive" THEN "unarchive" ELSE "archive"
           IN  IF ret.habit_id \in DOMAIN pre.habits
               THEN /\ ret.success /\ ret.error = ""
                    /\ habits = [pre.habits EXCEPT
                                    ![ret.habit_id].is_archived = flag]
                    /\ habit_completions = pre.habit_completions
                    /\ Before.is_archived = 1 - flag =>
                           SetArchived(Tables, back, ret.habit_id, 1 - flag).habits
                               = pre.habits
               ELSE /\ ~ret.success /\ ret.error = "Habit not found"
                    /\ Tables = pre
    /\ \A now \in 1..MaxDayTwo :
           LET today == strftime(now)
               active == ListedIds(ListOutcome(Tables, today))
               archived == ListedIds(ArchivedOutcome(Tables, today))
           IN  /\ active \cup archived = DOMAIN habits
               /\ active \cap archived = {}
               /\ \A id \in DOMAIN habits :
                      /\ SameButFlag(
                             CompleteOutcome(WithFlag(Tables, id, 0), id, today),
                             CompleteOutcome(WithFlag(Tables, id, 1), id, today),
                             id)
                      /\ SameButFlag(
                             UncompleteOutcome(WithFlag(Tables, id, 0), id, today),
                             UncompleteOutcome(WithFlag(Tables, id, 1), id, today),
                             id)

\* unarchive_habit has succeeded on an archived habit that has a streak and a
\* record, while another habit is archived.
C29_Witness ==
    /\ Done("unarchive")
    /\ Before.is_archived = 1
    /\ After.is_archived = 0
    /\ After.streak >= 1
    /\ HasRecord(Tables, ret.habit_id, After.last_done)
    /\ \E other \in DOMAIN habits : habits[other].is_archived = 1

====
